---- MODULE Spec2Model ----
(***************************************************************************)
(* Model of the Minecraft server protocol sessions of src/src/server.ts:   *)
(* Server.ping / getStatus (Server List Ping over TCP), Server.legacyPing  *)
(* (pre-1.7 ping over TCP) and Server.query (GameSpy4 query over UDP),     *)
(* together with the helpers readVarInt, getVarIntSize and                 *)
(* parseQueryResponse.                                                     *)
(*                                                                         *)
(* Buffers are sequences of bytes (0..255), indexed from 1 in TLA+ and     *)
(* from 0 in the source; strings are sequences of UTF-16 code units.       *)
(* One session is live at a time; a caller that awaits each call starts    *)
(* the next session only once the previous promise has settled.            *)
(***************************************************************************)
EXTENDS Integers, Sequences, FiniteSets, TLC

(***************************************************************************)
(* Bounds of the model.                                                    *)
(***************************************************************************)
\* number of consecutive calls the caller makes
MaxCalls == 3
\* number of datagrams a query session may receive
MaxDatagrams == 3
\* milliseconds that pass in one step of the clock
TickMs == 2500
\* Date.now() - start saturates here
MaxElapsed == 7500

\* integers 0..MaxSmallValue are encoded and decoded, besides the boundaries
MaxSmallValue == 40

\* the longest raw buffer a VarInt is decoded from
MaxRawLen == 3

\* the number of consecutive awaited calls made on one Rest object
MaxRestCalls == 2

\* the longest stat payload parseQueryResponse is applied to on its own
MaxBodyLen == 6

\* the length of the long host name a ping is made with
LongHostLen == 122

(***************************************************************************)
(* Program constants.                                                      *)
(***************************************************************************)
\* socket.setTimeout(5000) / setTimeout(..., 5000)
TimeoutMs == 5000

\* the value of an out-of-range buffer index, buf[i] === undefined
Undefined == -1

Min(a, b) == IF a < b THEN a ELSE b
Max(a, b) == IF a > b THEN a ELSE b

(***************************************************************************)
(* 32-bit integer arithmetic of JavaScript's bitwise operators.  A 32-bit  *)
(* pattern is a function from bit positions 0..31 to {0, 1}, so that no    *)
(* intermediate value needs more than 31 bits.                             *)
(***************************************************************************)
RECURSIVE Pow2(_)
Pow2(n) == IF n = 0 THEN 1 ELSE 2 * Pow2(n - 1)

ZeroBits == [i \in 0..31 |-> 0]

\* a | b
BitOr(a, b) == [i \in 0..31 |-> IF a[i] = 1 \/ b[i] = 1 THEN 1 ELSE 0]

\* x << s for 0 <= x < 128: the shift count is taken mod 32 and the bits
\* shifted beyond position 31 are lost
Shl32(x, s) ==
  LET n == s % 32
  IN  [i \in 0..31 |->
         IF i >= n /\ i - n < 7 THEN (x \div Pow2(i - n)) % 2 ELSE 0]

\* the signed value of a 32-bit pattern
RECURSIVE LowBits(_, _)
LowBits(bits, i) ==
  IF i < 0 THEN 0 ELSE bits[i] * Pow2(i) + LowBits(bits, i - 1)

ToInt32(bits) ==
  IF bits[31] = 1
    THEN (LowBits(bits, 30) - 2147483647) - 1
    ELSE LowBits(bits, 30)

\* buf[i] for a 0-based index i: undefined outside the buffer
ByteAt(buf, i) == IF i >= 0 /\ i < Len(buf) THEN buf[i + 1] ELSE Undefined

\* byte & 0x7f, where undefined converts to 0
And7f_Mask3f(b) == IF b = Undefined THEN 0 ELSE b % 64

And7f(b) == IF b = Undefined THEN 0 ELSE b % 128

\* byte & 0x80, where undefined converts to 0
And80(b) == IF b = Undefined THEN 0 ELSE ((b \div 128) % 2) * 128

(***************************************************************************)
(* Buffer.prototype.readVarInt: the do/while loop, one iteration per       *)
(* unfolding.  It never throws: past the end of the buffer the byte is     *)
(* undefined, which contributes 0 and ends the loop.                       *)
(***************************************************************************)
RECURSIVE readVarIntLoop(_, _, _, _)
readVarIntLoop(buf, pos, shift, num) ==
  LET byte == ByteAt(buf, pos)
      num2 == BitOr(num, Shl32(And7f(byte), shift))
  IN  IF And80(byte) # 0
        THEN readVarIntLoop(buf, pos + 1, shift + 7, num2)
        ELSE ToInt32(num2)

readVarInt(buf, offset) == readVarIntLoop(buf, offset, 0, ZeroBits)

\* the value of pos when the do/while loop of readVarInt ends: pos is
\* incremented once per byte read, a read past the end included
RECURSIVE readVarIntPos(_, _)
readVarIntPos(buf, pos) ==
  IF And80(ByteAt(buf, pos)) # 0
    THEN readVarIntPos(buf, pos + 1)
    ELSE pos + 1

(***************************************************************************)
(* getVarIntSize: counts the bytes with the high bit set from offset on,   *)
(* plus one.  Past the end of the buffer the test fails and the loop ends. *)
(***************************************************************************)
RECURSIVE getVarIntSizeLoop(_, _, _)
getVarIntSizeLoop(buf, offset, size) ==
  IF And80(ByteAt(buf, offset + size)) = 128
    THEN getVarIntSizeLoop(buf, offset, size + 1)
    ELSE size + 1

getVarIntSize_FromStart(buf, offset) == getVarIntSizeLoop(buf, 0, 0)

getVarIntSize(buf, offset) == getVarIntSizeLoop(buf, offset, 0)

(***************************************************************************)
(* Buffer.slice(start, end): negative indices count from the end, both     *)
(* indices are clamped to the buffer, an empty range gives an empty buffer.*)
(***************************************************************************)
ClampIndex(len, i) == IF i < 0 THEN Max(len + i, 0) ELSE Min(i, len)

Slice(buf, start, end) ==
  LET s == ClampIndex(Len(buf), start)
      e == ClampIndex(Len(buf), end)
  IN  IF e <= s THEN <<>> ELSE SubSeq(buf, s + 1, e)

\* Buffer.concat([a, b])
Concat(a, b) == a \o b

(***************************************************************************)
(* Buffer.toString("utf8") on buffers whose bytes are below 0xC2: an ASCII *)
(* byte is its own character, a byte of 0x80..0xC1 cannot start a sequence *)
(* and decodes to U+FFFD.                                                  *)
(***************************************************************************)
ReplacementChar == 65533

Utf8ToString(buf) ==
  [i \in 1..Len(buf) |-> IF buf[i] < 128 THEN buf[i] ELSE ReplacementChar]

\* Buffer.from(str) for a string of ASCII characters
StringToBuffer(str) == str

(***************************************************************************)
(* Buffer.toString("ucs2", start): Node's "ucs2" is UTF-16LE; pairs of     *)
(* bytes (low, high) from start on, a trailing odd byte is dropped.        *)
(***************************************************************************)
Ucs2ToString(buf, start) ==
  LET rest == Slice(buf, start, Len(buf))
  IN  [i \in 1..(Len(rest) \div 2) |-> rest[2 * i - 1] + 256 * rest[2 * i]]

(***************************************************************************)
(* String.prototype.split("\0"): the parts between NUL characters; a       *)
(* string without NUL is one part, the empty string gives one empty part.  *)
(***************************************************************************)
RECURSIVE SplitLoop(_, _, _)
SplitLoop(str, i, cur) ==
  IF i > Len(str) THEN <<cur>>
  ELSE IF str[i] = 0 THEN <<cur>> \o SplitLoop(str, i + 1, <<>>)
  ELSE SplitLoop(str, i + 1, Append(cur, str[i]))

SplitNul(str) == SplitLoop(str, 1, <<>>)

(***************************************************************************)
(* Decimal text of integers, as parseInt reads it and Number.toString      *)
(* writes it.                                                              *)
(***************************************************************************)
IsDigit(c) == c >= 48 /\ c <= 57

RECURSIVE DecValue(_)
DecValue(digits) ==
  IF digits = <<>> THEN 0
  ELSE 10 * DecValue(SubSeq(digits, 1, Len(digits) - 1))
       + (digits[Len(digits)] - 48)

RECURSIVE DecString(_)
DecString(n) ==
  IF n < 10 THEN <<48 + n>> ELSE Append(DecString(n \div 10), 48 + (n % 10))

\* the longest prefix of str made of digits
RECURSIVE DigitPrefix(_)
DigitPrefix(str) ==
  IF str # <<>> /\ IsDigit(Head(str))
    THEN <<Head(str)>> \o DigitPrefix(Tail(str))
    ELSE <<>>

\* the value of a variable holding null, NaN or a number
Null == [kind |-> "null", val |-> 0]
NaN == [kind |-> "nan", val |-> 0]
Num(n) == [kind |-> "num", val |-> n]

\* parseInt(str) on text without leading whitespace or 0x prefix: an
\* optional sign and the digits that follow it, in base 10; NaN when there
\* is no digit
ParseInt(str) ==
  LET signed == str # <<>> /\ Head(str) \in {43, 45}
      negative == str # <<>> /\ Head(str) = 45
      digits == DigitPrefix(IF signed THEN Tail(str) ELSE str)
  IN  IF digits = <<>> THEN NaN
      ELSE Num(IF negative THEN 0 - DecValue(digits) ELSE DecValue(digits))

\* token.toString() for NaN and for integers
NumberToString(t) ==
  IF t.kind = "nan" THEN <<78, 97, 78>>
  ELSE IF t.val < 0 THEN <<45>> \o DecString(0 - t.val)
  ELSE DecString(t.val)

(***************************************************************************)
(* JSON.parse on texts made of digits, '[' and ']' and of characters that  *)
(* are no JSON syntax (NUL, U+FFFD): a value is a number without a leading *)
(* zero, or an array holding at most one value.  The value is given by the *)
(* nesting depth and the innermost number (-1 for an empty array).         *)
(***************************************************************************)
IsJsonNumber(t) ==
  /\ t # <<>>
  /\ \A i \in 1..Len(t) : IsDigit(t[i])
  /\ (Len(t) > 1 => t[1] # 48)

SyntaxError == [ok |-> FALSE, depth |-> 0, num |-> -1]

RECURSIVE JsonParse(_)
JsonParse(t) ==
  IF IsJsonNumber(t) THEN [ok |-> TRUE, depth |-> 0, num |-> DecValue(t)]
  ELSE IF Len(t) = 2 /\ t[1] = 91 /\ t[2] = 93
    THEN [ok |-> TRUE, depth |-> 1, num |-> -1]
  ELSE IF Len(t) > 2 /\ t[1] = 91 /\ t[Len(t)] = 93
    THEN LET inner == JsonParse(SubSeq(t, 2, Len(t) - 1))
         IN  IF inner.ok
               THEN [ok |-> TRUE, depth |-> inner.depth + 1, num |-> inner.num]
               ELSE SyntaxError
  ELSE SyntaxError

(***************************************************************************)
(* parseQueryResponse: skip 5 bytes, split on NUL, pair the parts; i is    *)
(* the 0-based loop index.  A later assignment to a key overwrites.        *)
(***************************************************************************)
\* the property name __proto__
ProtoKey == <<95, 95, 112, 114, 111, 116, 111, 95, 95>>

\* data[key] = value on a plain object, value a string: the name __proto__
\* is the accessor inherited from Object.prototype, whose setter ignores a
\* value that is neither an object nor null, so no own property is made
SetProperty(data, key, value) ==
  IF key = ProtoKey THEN data ELSE (key :> value) @@ data

RECURSIVE parseQueryLoop(_, _, _)
parseQueryLoop(parts, i, data) ==
  IF i < Len(parts) - 1
    THEN IF Len(parts[i + 1]) = 0
           THEN data
           ELSE parseQueryLoop(parts, i + 2,
                               SetProperty(data, parts[i + 1], parts[i + 2]))
    ELSE data

\* a parse that skips 4 header bytes instead of 5
parseQueryResponse_Skip4(msg) ==
  LET str == Utf8ToString(Slice(msg, 4, Len(msg)))
      parts == SplitNul(str)
  IN  parseQueryLoop(parts, 0, <<>>)

parseQueryResponse(msg) ==
  LET str == Utf8ToString(Slice(msg, 5, Len(msg)))
      parts == SplitNul(str)
  IN  parseQueryLoop(parts, 0, <<>>)

(***************************************************************************)
(* The legacyPing data handler's parse: parts[1..5] of the NUL-split       *)
(* UCS-2 text after the first 3 bytes; a missing part is undefined.        *)
(***************************************************************************)
UndefinedStr == <<Undefined>>

PartAt(parts, i) == IF i < Len(parts) THEN parts[i + 1] ELSE UndefinedStr

LegacyParse(data) ==
  LET parts == SplitNul(Ucs2ToString(data, 3))
  IN  [type |-> "legacy",
       protocol |-> PartAt(parts, 1),
       version |-> PartAt(parts, 2),
       motd |-> PartAt(parts, 3),
       onlinePlayers |-> PartAt(parts, 4),
       maxPlayers |-> PartAt(parts, 5)]

(***************************************************************************)
(* Packets the client writes.                                              *)
(***************************************************************************)
\* Buffer.from([n]): the element is stored as n & 255
ByteOf(n) == n % 256

\* the handshake payload of Server.ping
Handshake(h, p) ==
  <<0>> \o <<0>> \o <<ByteOf(Len(h))>> \o h
    \o <<(p \div 256) % 256, p % 256>> \o <<1>>

HandshakePacket(h, p) == <<ByteOf(Len(Handshake(h, p)))>> \o Handshake(h, p)

StatusRequest == <<1, 0>>

LegacyProbe == <<254, 1>>

\* (sessionId >> 24) & 0xff, ..., sessionId & 0xff; the 32-bit session ID is
\* held as its two 16-bit halves <<high, low>>
SessionIdBytes(sid) ==
  <<(sid[1] \div 256) % 256, sid[1] % 256,
    (sid[2] \div 256) % 256, sid[2] % 256>>

QueryHandshake(sid) == <<254, 253, 9>> \o SessionIdBytes(sid)

QueryStatRequest(sid, tok) ==
  <<254, 253, 0>> \o SessionIdBytes(sid)
    \o StringToBuffer(NumberToString(tok)) \o <<0, 0, 0, 0>>

(***************************************************************************)
(* The decode steps of the Server.ping data handler on the accumulated     *)
(* buffer.                                                                 *)
(***************************************************************************)
PingDecode(buf) ==
  LET length == readVarInt(buf, 0)
      offset1 == getVarIntSize(buf, 0)
      packetId == readVarInt(buf, offset1)
      offset2 == offset1 + getVarIntSize(buf, offset1)
      jsonLength == readVarInt(buf, offset2)
      offset3 == offset2 + getVarIntSize(buf, offset2)
  IN  [length |-> length,
       packetId |-> packetId,
       jsonLength |-> jsonLength,
       offset |-> offset3,
       json |-> Utf8ToString(Slice(buf, offset3, offset3 + jsonLength))]

(***************************************************************************)
(* The peer: what a server may send.  Status responses are framed as       *)
(* VarInt(length of payload), payload = VarInt(0x00), VarInt(length of     *)
(* JSON), JSON.                                                            *)
(***************************************************************************)
\* the VarInt encoding of a non-negative integer
RECURSIVE EncodeVarInt(_)
EncodeVarInt(v) ==
  IF v < 128 THEN <<v>> ELSE <<128 + (v % 128)>> \o EncodeVarInt(v \div 128)

FrameStatus(json) ==
  LET payload == EncodeVarInt(0) \o EncodeVarInt(Len(json)) \o json
  IN  EncodeVarInt(Len(payload)) \o payload

\* the JSON texts 12 and [1]
JsonTexts == {<<49, 50>>, <<91, 49, 93>>}

\* the status response for [1] with its length written in two bytes
LongLengthStatus == <<133, 0>> \o <<0, 3, 91, 49, 93>>

\* a packet whose ID is 0x01
OtherPacket == <<2, 1, 49>>

\* a status response whose JSON text is ]
BadJsonStatus == <<3, 0, 1, 93>>

StatusFrames == {FrameStatus(j) : j \in JsonTexts} \cup {LongLengthStatus}

\* the packet with ID 0x01 followed by the status response for 1
OtherThenStatus == OtherPacket \o FrameStatus(<<49>>)

PingResponses ==
  StatusFrames \cup {OtherPacket, OtherThenStatus, BadJsonStatus, <<>>}

\* FF, length, UTF-16LE text a NUL 9 NUL 1 NUL m NUL 2 NUL 3; and a short reply
LegacyFull ==
  <<255, 0, 11>> \o <<97, 0, 0, 0, 57, 0, 0, 0, 49, 0, 0, 0>>
    \o <<109, 0, 0, 0, 50, 0, 0, 0, 51, 0>>

\* the bytes of a string as big-endian 2-byte code units
RECURSIVE EncodeUcs2BE(_)
EncodeUcs2BE(str) ==
  IF str = <<>> THEN <<>>
  ELSE <<Head(str) \div 256, Head(str) % 256>> \o EncodeUcs2BE(Tail(str))

\* the parts joined by NUL
RECURSIVE JoinNul(_)
JoinNul(parts) ==
  IF Len(parts) = 1 THEN parts[1]
  ELSE parts[1] \o <<0>> \o JoinNul(Tail(parts))

\* the fields of a 1.6 server: tag, 9, 1.6, A Minecraft Server, 20, 100
LegacyFields ==
  << <<167, 49>>, <<57>>, <<49, 46, 54>>,
     <<65, 32, 77, 105, 110, 101, 99, 114, 97,
       102, 116, 32, 83, 101, 114, 118, 101, 114>>,
     <<50, 48>>, <<49, 48, 48>> >>

\* FF, the character count as a big-endian 16-bit number, the text of the
\* fields in big-endian code units
LegacyBigEndian ==
  LET text == JoinNul(LegacyFields)
  IN  <<255, Len(text) \div 256, Len(text) % 256>> \o EncodeUcs2BE(text)

LegacyResponses == {LegacyFull, LegacyBigEndian, <<255, 0>>, <<>>}

\* 09, session ID, token text, NUL
TokenReply(sid, text) == <<9>> \o SessionIdBytes(sid) \o text \o <<0>>

\* 00, session ID, key NUL value NUL ... NUL
RECURSIVE EncodeStat(_)
EncodeStat(kvs) ==
  IF kvs = <<>> THEN <<0>>
  ELSE kvs[1][1] \o <<0>> \o kvs[1][2] \o <<0>> \o EncodeStat(Tail(kvs))

StatReply(sid, kvs) == <<0>> \o SessionIdBytes(sid) \o EncodeStat(kvs)

\* the stat blocks a server may answer with: a |-> b, and m |-> 1, n |-> 2
StatBlocks == {<< <<(<<97>>), (<<98>>)>> >>,
               << <<(<<109>>), (<<49>>)>>, <<(<<110>>), (<<50>>)>> >>}

\* the mapping a stat block stands for
RECURSIVE StatMap(_)
StatMap(kvs) ==
  IF kvs = <<>> THEN <<>>
  ELSE StatMap(Tail(kvs)) @@ (kvs[1][1] :> kvs[1][2])

\* the token texts 42, 7, -3 and 07, and a text that is no number
TokenTexts == {<<52, 50>>, <<55>>, <<45, 51>>, <<48, 55>>, <<120>>}

\* a session ID that differs from sid in its last byte
OtherSessionId(sid) == <<sid[1], (sid[2] + 1) % 65536>>

Datagrams(sid) ==
  {TokenReply(sid, t) : t \in TokenTexts}
    \cup {StatReply(sid, b) : b \in StatBlocks}
    \cup {StatReply(OtherSessionId(sid), b) : b \in StatBlocks}
    \cup {<<5>>, <<>>}

\* a host name of LongHostLen bytes: its handshake payload is 128 bytes long
LongHost == [i \in 1..LongHostLen |-> 97]

Hosts == {<<97>>, <<109, 99>>, LongHost}
Ports == {25565}
\* 0x01020304 and 0xFFFFFFFE
SessionIds == {<<258, 772>>, <<65535, 65534>>}

(***************************************************************************)
(* State.                                                                  *)
(***************************************************************************)
VARIABLES
  calls,         \* number of calls made so far
  leakedSockets, \* sockets of earlier calls that are still open
  leakedTimers,  \* timers of earlier calls that are still armed
  kind,          \* "none", "ping", "legacyPing" or "query"
  host, port, returnStatus,  \* the arguments of the call
  socket,        \* "none", "connecting", "open", "destroyed" or "closed"
  timer,         \* "none", "armed", "fired" or "cleared"
  idle,          \* ms since the timer was armed or last refreshed
  elapsed,       \* Date.now() - start
  written,       \* the buffers written to / sent on the socket, in order
  receivedData,  \* the accumulated receive buffer of ping
  response,      \* the bytes the server sends on the TCP stream
  delivered,     \* how many of them 'data' events have delivered
  nDatagrams,    \* datagrams received by the query session
  sessionId, token,  \* of the query session
  promise,       \* "pending", "resolved" or "rejected"
  settles,       \* how often resolve or reject was called in this session
  result,        \* the value or error the promise settled with
  timeoutFired,  \* the timeout handler of this session has run
  last,          \* the handler that ran last
  lastMsg,       \* the datagram the 'message' handler ran on last
  connectedAt,   \* Date.now() - start when the connect callback ran
  cValue,        \* the integer whose encoding is decoded, -1 for raw bytes
  cBuf,          \* the buffer a VarInt is decoded from
  cOffset,       \* the offset it is decoded at
  cOut,          \* the outcome of the decode
  pMsg,          \* the datagram parseQueryResponse is applied to
  pOut,          \* the outcome of the parse
  parked,        \* the session that is not being stepped, of two concurrent
  pistonManifest,         \* the manifest the piston-meta server answers with
  VERSION_MANIFEST_DATA,  \* the field of Rest, NoManifest while unset
  initialize,    \* "pending" while the constructor's load awaits its fetch
  restCalls,     \* calls of fetchVersions / fetchLatestVersion made so far
  restOp, restType,       \* the method called last and its argument
  restPc,        \* "idle", "fetching" (awaiting its own fetch) or "settled"
  restResult     \* what the promise of the call settled with

sessionVars ==
  <<calls, leakedSockets, leakedTimers, kind, host, port, returnStatus,
    socket, timer, idle, elapsed, written, receivedData, response,
    delivered, nDatagrams, sessionId, token, promise, settles, result,
    timeoutFired, last, lastMsg, connectedAt>>

codecVars == <<cValue, cBuf, cOffset, cOut>>

parseVars == <<pMsg, pOut>>

\* the state of the pure functions applied on their own
pureVars == <<codecVars, parseVars>>

restVars ==
  <<pistonManifest, VERSION_MANIFEST_DATA, initialize, restCalls, restOp,
    restType, restPc, restResult>>

vars == <<sessionVars, parked, pureVars, restVars>>

NoResult == [type |-> "none"]
TimeoutConnecting == [type |-> "error", message |-> "Timeout connecting to server"]
TimeoutQuerying == [type |-> "error", message |-> "Timeout querying server"]
SocketErr == [type |-> "error", message |-> "socket error"]

SocketAlive == socket \in {"connecting", "open"}
TimerAlive == timer = "armed"

\* no decode has been asked for
NoOutput ==
  [done |-> FALSE, threw |-> FALSE, value |-> 0, size |-> 0, reads |-> 0]

CodecIdle ==
  /\ cValue = -1
  /\ cBuf = <<>>
  /\ cOffset = 0
  /\ cOut = NoOutput

\* the state of a caller that has made no call, as a record
NoSession ==
  [calls |-> 0, leakedSockets |-> 0, leakedTimers |-> 0, kind |-> "none",
   host |-> <<>>, port |-> 0, returnStatus |-> FALSE, socket |-> "none",
   timer |-> "none", idle |-> 0, elapsed |-> 0, written |-> <<>>,
   receivedData |-> <<>>, response |-> <<>>, delivered |-> 0,
   nDatagrams |-> 0, sessionId |-> <<0, 0>>, token |-> Null,
   promise |-> "resolved", settles |-> 0, result |-> NoResult,
   timeoutFired |-> FALSE, last |-> "none", lastMsg |-> <<>>,
   connectedAt |-> 0]

\* the state of the session being stepped, as a record
SessionRecord ==
  [calls |-> calls, leakedSockets |-> leakedSockets,
   leakedTimers |-> leakedTimers, kind |-> kind, host |-> host,
   port |-> port, returnStatus |-> returnStatus, socket |-> socket,
   timer |-> timer, idle |-> idle, elapsed |-> elapsed, written |-> written,
   receivedData |-> receivedData, response |-> response,
   delivered |-> delivered, nDatagrams |-> nDatagrams,
   sessionId |-> sessionId, token |-> token, promise |-> promise,
   settles |-> settles, result |-> result, timeoutFired |-> timeoutFired,
   last |-> last, lastMsg |-> lastMsg, connectedAt |-> connectedAt]

SessionInit ==
  /\ calls = 0
  /\ leakedSockets = 0
  /\ leakedTimers = 0
  /\ kind = "none"
  /\ host = <<>>
  /\ port = 0
  /\ returnStatus = FALSE
  /\ socket = "none"
  /\ timer = "none"
  /\ idle = 0
  /\ elapsed = 0
  /\ written = <<>>
  /\ receivedData = <<>>
  /\ response = <<>>
  /\ delivered = 0
  /\ nDatagrams = 0
  /\ sessionId = <<0, 0>>
  /\ token = Null
  /\ promise = "resolved"
  /\ settles = 0
  /\ result = NoResult
  /\ timeoutFired = FALSE
  /\ last = "none"
  /\ lastMsg = <<>>
  /\ connectedAt = 0
  /\ parked = NoSession

\* no parse has been asked for
NoParse == [done |-> FALSE, data |-> <<>>]

ParseIdle ==
  /\ pMsg = <<>>
  /\ pOut = NoParse

\* the field VERSION_MANIFEST_DATA while it is null
NoManifest == [versions |-> <<>>, loaded |-> FALSE]

\* no Rest object has been constructed
RestIdle ==
  /\ pistonManifest = NoManifest
  /\ VERSION_MANIFEST_DATA = NoManifest
  /\ initialize = "none"
  /\ restCalls = 0
  /\ restOp = "none"
  /\ restType = "none"
  /\ restPc = "idle"
  /\ restResult = NoResult

Init == SessionInit /\ CodecIdle /\ ParseIdle /\ RestIdle

\* resolve(v) / reject(e): a promise settles once, later calls have no effect
SettledPromise(p) == IF promise = "pending" THEN p ELSE promise
SettledResult(r) == IF promise = "pending" THEN r ELSE result

\* the caller awaits each call: the next one starts when the promise settled
CanCall == calls < MaxCalls /\ promise # "pending"

NewCall ==
  /\ calls' = calls + 1
  /\ leakedSockets' = leakedSockets + (IF SocketAlive THEN 1 ELSE 0)
  /\ leakedTimers' = leakedTimers + (IF TimerAlive THEN 1 ELSE 0)
  /\ idle' = 0
  /\ elapsed' = 0
  /\ receivedData' = <<>>
  /\ delivered' = 0
  /\ nDatagrams' = 0
  /\ token' = Null
  /\ promise' = "pending"
  /\ settles' = 0
  /\ result' = NoResult
  /\ timeoutFired' = FALSE
  /\ last' = "call"
  /\ lastMsg' = <<>>
  /\ connectedAt' = 0
  /\ UNCHANGED <<parked, pureVars, restVars>>

(***************************************************************************)
(* Server.ping(host, port, returnStatus); getStatus is ping(..., true).    *)
(***************************************************************************)
\* the promise executor: new net.Socket(), setTimeout(5000), connect(...)
CallPing(h, p, rs) ==
  /\ CanCall
  /\ NewCall
  /\ kind' = "ping"
  /\ host' = h
  /\ port' = p
  /\ returnStatus' = rs
  /\ socket' = "connecting"
  /\ timer' = "armed"
  /\ \E r \in PingResponses : response' = r
  /\ sessionId' = <<0, 0>>
  /\ written' = <<>>

\* a connect callback that writes the status request first
PingConnect_StatusFirst ==
  /\ kind = "ping"
  /\ socket = "connecting"
  /\ socket' = "open"
  /\ written' = Append(Append(written, StatusRequest),
                       HandshakePacket(host, port))
  /\ idle' = 0
  /\ last' = "connect"
  /\ connectedAt' = elapsed
  /\ UNCHANGED lastMsg
  /\ UNCHANGED <<parked, pureVars, restVars>>
  /\ UNCHANGED <<calls, leakedSockets, leakedTimers, kind, host, port,
                 returnStatus, timer, elapsed, receivedData, response,
                 delivered, nDatagrams, sessionId, token, promise, settles,
                 result, timeoutFired>>

\* the connect callback: both writes, in one run of the callback
PingConnect ==
  /\ kind = "ping"
  /\ socket = "connecting"
  /\ socket' = "open"
  /\ written' = Append(Append(written, HandshakePacket(host, port)),
                       StatusRequest)
  /\ idle' = 0
  /\ last' = "connect"
  /\ connectedAt' = elapsed
  /\ UNCHANGED lastMsg
  /\ UNCHANGED <<parked, pureVars, restVars>>
  /\ UNCHANGED <<calls, leakedSockets, leakedTimers, kind, host, port,
                 returnStatus, timer, elapsed, receivedData, response,
                 delivered, nDatagrams, sessionId, token, promise, settles,
                 result, timeoutFired>>

\* a 'data' handler whose receive buffer is shared by all sessions
PingData_SharedBuffer(k) ==
  /\ kind = "ping"
  /\ socket = "open"
  /\ delivered + k <= Len(response)
  /\ LET data == SubSeq(response, delivered + 1, delivered + k)
         buf == Concat(receivedData, data)
         d == PingDecode(buf)
         parsed == JsonParse(d.json)
     IN  /\ receivedData' = buf
         /\ delivered' = delivered + k
         /\ IF d.packetId = 0
              THEN /\ socket' = "destroyed"
                   /\ timer' = "cleared"
                   /\ idle' = idle
                   /\ IF returnStatus
                        THEN IF parsed.ok
                               THEN /\ settles' = settles + 1
                                    /\ promise' = SettledPromise("resolved")
                                    /\ result' = SettledResult(
                                         [type |-> "json",
                                          depth |-> parsed.depth,
                                          num |-> parsed.num])
                               ELSE \* JSON.parse throws, the catch swallows it
                                    UNCHANGED <<promise, settles, result>>
                        ELSE /\ settles' = settles + 1
                             /\ promise' = SettledPromise("resolved")
                             /\ result' = SettledResult(
                                  [type |-> "ms", ms |-> elapsed])
              ELSE /\ idle' = 0
                   /\ UNCHANGED <<socket, timer, promise, settles, result>>
  /\ last' = "data"
  /\ UNCHANGED <<lastMsg, connectedAt>>
  /\ parked' = [parked EXCEPT !.receivedData = receivedData']
  /\ UNCHANGED <<pureVars, restVars>>
  /\ UNCHANGED <<calls, leakedSockets, leakedTimers, kind, host, port,
                 returnStatus, elapsed, written, response, nDatagrams,
                 sessionId, token, timeoutFired>>

\* the 'data' handler on a chunk of k bytes
PingData(k) ==
  /\ kind = "ping"
  /\ socket = "open"
  /\ delivered + k <= Len(response)
  /\ LET data == SubSeq(response, delivered + 1, delivered + k)
         buf == Concat(receivedData, data)
         d == PingDecode(buf)
         parsed == JsonParse(d.json)
     IN  /\ receivedData' = buf
         /\ delivered' = delivered + k
         /\ IF d.packetId = 0
              THEN /\ socket' = "destroyed"
                   /\ timer' = "cleared"
                   /\ idle' = idle
                   /\ IF returnStatus
                        THEN IF parsed.ok
                               THEN /\ settles' = settles + 1
                                    /\ promise' = SettledPromise("resolved")
                                    /\ result' = SettledResult(
                                         [type |-> "json",
                                          depth |-> parsed.depth,
                                          num |-> parsed.num])
                               ELSE \* JSON.parse throws, the catch swallows it
                                    UNCHANGED <<promise, settles, result>>
                        ELSE /\ settles' = settles + 1
                             /\ promise' = SettledPromise("resolved")
                             /\ result' = SettledResult(
                                  [type |-> "ms", ms |-> elapsed])
              ELSE /\ idle' = 0
                   /\ UNCHANGED <<socket, timer, promise, settles, result>>
  /\ last' = "data"
  /\ UNCHANGED <<lastMsg, connectedAt>>
  /\ UNCHANGED <<parked, pureVars, restVars>>
  /\ UNCHANGED <<calls, leakedSockets, leakedTimers, kind, host, port,
                 returnStatus, elapsed, written, response, nDatagrams,
                 sessionId, token, timeoutFired>>

\* the 'timeout' handler: no activity on the socket for 5000 ms
PingTimeout ==
  /\ kind = "ping"
  /\ SocketAlive
  /\ timer = "armed"
  /\ idle >= TimeoutMs
  /\ socket' = "destroyed"
  /\ timer' = "fired"
  /\ settles' = settles + 1
  /\ promise' = SettledPromise("rejected")
  /\ result' = SettledResult(TimeoutConnecting)
  /\ timeoutFired' = TRUE
  /\ last' = "timeout"
  /\ UNCHANGED <<lastMsg, connectedAt>>
  /\ UNCHANGED <<parked, pureVars, restVars>>
  /\ UNCHANGED <<calls, leakedSockets, leakedTimers, kind, host, port,
                 returnStatus, idle, elapsed, written, receivedData, response,
                 delivered, nDatagrams, sessionId, token>>

\* an error handler that rejects without destroying the socket
PingError_NoDestroy ==
  /\ kind = "ping"
  /\ SocketAlive
  /\ promise = "pending"
  /\ settles' = settles + 1
  /\ promise' = "rejected"
  /\ result' = SocketErr
  /\ last' = "error"
  /\ UNCHANGED <<lastMsg, connectedAt>>
  /\ UNCHANGED <<parked, pureVars, restVars>>
  /\ UNCHANGED <<calls, leakedSockets, leakedTimers, kind, host, port,
                 returnStatus, socket, timer, idle, elapsed, written,
                 receivedData, response, delivered, nDatagrams, sessionId,
                 token, timeoutFired>>

\* the 'error' handler
PingError ==
  /\ kind = "ping"
  /\ SocketAlive
  /\ socket' = "destroyed"
  /\ timer' = "cleared"
  /\ settles' = settles + 1
  /\ promise' = SettledPromise("rejected")
  /\ result' = SettledResult(SocketErr)
  /\ last' = "error"
  /\ UNCHANGED <<lastMsg, connectedAt>>
  /\ UNCHANGED <<parked, pureVars, restVars>>
  /\ UNCHANGED <<calls, leakedSockets, leakedTimers, kind, host, port,
                 returnStatus, idle, elapsed, written, receivedData, response,
                 delivered, nDatagrams, sessionId, token, timeoutFired>>

(***************************************************************************)
(* Server.legacyPing(host, port).                                          *)
(***************************************************************************)
CallLegacyPing(h, p) ==
  /\ CanCall
  /\ NewCall
  /\ kind' = "legacyPing"
  /\ host' = h
  /\ port' = p
  /\ returnStatus' = FALSE
  /\ socket' = "connecting"
  /\ timer' = "armed"
  /\ \E r \in LegacyResponses : response' = r
  /\ sessionId' = <<0, 0>>
  /\ written' = <<>>

LegacyConnect ==
  /\ kind = "legacyPing"
  /\ socket = "connecting"
  /\ socket' = "open"
  /\ written' = Append(written, LegacyProbe)
  /\ idle' = 0
  /\ last' = "connect"
  /\ connectedAt' = elapsed
  /\ UNCHANGED lastMsg
  /\ UNCHANGED <<parked, pureVars, restVars>>
  /\ UNCHANGED <<calls, leakedSockets, leakedTimers, kind, host, port,
                 returnStatus, timer, elapsed, receivedData, response,
                 delivered, nDatagrams, sessionId, token, promise, settles,
                 result, timeoutFired>>

\* a data handler that rejects a response with fewer than 6 parts
LegacyData_RejectsShort(k) ==
  /\ kind = "legacyPing"
  /\ socket = "open"
  /\ delivered + k <= Len(response)
  /\ LET data == SubSeq(response, delivered + 1, delivered + k)
     IN  /\ socket' = "destroyed"
         /\ timer' = "cleared"
         /\ IF LegacyParse(data).maxPlayers = UndefinedStr
              THEN /\ settles' = settles + 1
                   /\ promise' = SettledPromise("rejected")
                   /\ result' = SettledResult(SocketErr)
              ELSE /\ settles' = settles + 1
                   /\ promise' = SettledPromise("resolved")
                   /\ result' = SettledResult(LegacyParse(data))
  /\ delivered' = delivered + k
  /\ last' = "data"
  /\ UNCHANGED <<lastMsg, connectedAt>>
  /\ UNCHANGED <<parked, pureVars, restVars>>
  /\ UNCHANGED <<calls, leakedSockets, leakedTimers, kind, host, port,
                 returnStatus, idle, elapsed, written, receivedData, response,
                 nDatagrams, sessionId, token, timeoutFired>>

LegacyData(k) ==
  /\ kind = "legacyPing"
  /\ socket = "open"
  /\ delivered + k <= Len(response)
  /\ LET data == SubSeq(response, delivered + 1, delivered + k)
     IN  /\ socket' = "destroyed"
         /\ timer' = "cleared"
         /\ settles' = settles + 1
         /\ promise' = SettledPromise("resolved")
         /\ result' = SettledResult(LegacyParse(data))
  /\ delivered' = delivered + k
  /\ last' = "data"
  /\ UNCHANGED <<lastMsg, connectedAt>>
  /\ UNCHANGED <<parked, pureVars, restVars>>
  /\ UNCHANGED <<calls, leakedSockets, leakedTimers, kind, host, port,
                 returnStatus, idle, elapsed, written, receivedData, response,
                 nDatagrams, sessionId, token, timeoutFired>>

\* a timeout handler that destroys the socket and forgets to reject
LegacyTimeout_NoReject ==
  /\ kind = "legacyPing"
  /\ SocketAlive
  /\ timer = "armed"
  /\ idle >= TimeoutMs
  /\ socket' = "destroyed"
  /\ timer' = "fired"
  /\ timeoutFired' = TRUE
  /\ last' = "timeout"
  /\ UNCHANGED <<lastMsg, connectedAt>>
  /\ UNCHANGED <<parked, pureVars, restVars>>
  /\ UNCHANGED <<calls, leakedSockets, leakedTimers, kind, host, port,
                 returnStatus, idle, elapsed, written, receivedData, response,
                 delivered, nDatagrams, sessionId, token, promise, settles,
                 result>>

LegacyTimeout ==
  /\ kind = "legacyPing"
  /\ SocketAlive
  /\ timer = "armed"
  /\ idle >= TimeoutMs
  /\ socket' = "destroyed"
  /\ timer' = "fired"
  /\ settles' = settles + 1
  /\ promise' = SettledPromise("rejected")
  /\ result' = SettledResult(TimeoutConnecting)
  /\ timeoutFired' = TRUE
  /\ last' = "timeout"
  /\ UNCHANGED <<lastMsg, connectedAt>>
  /\ UNCHANGED <<parked, pureVars, restVars>>
  /\ UNCHANGED <<calls, leakedSockets, leakedTimers, kind, host, port,
                 returnStatus, idle, elapsed, written, receivedData, response,
                 delivered, nDatagrams, sessionId, token>>

LegacyError ==
  /\ kind = "legacyPing"
  /\ SocketAlive
  /\ socket' = "destroyed"
  /\ timer' = "cleared"
  /\ settles' = settles + 1
  /\ promise' = SettledPromise("rejected")
  /\ result' = SettledResult(SocketErr)
  /\ last' = "error"
  /\ UNCHANGED <<lastMsg, connectedAt>>
  /\ UNCHANGED <<parked, pureVars, restVars>>
  /\ UNCHANGED <<calls, leakedSockets, leakedTimers, kind, host, port,
                 returnStatus, idle, elapsed, written, receivedData, response,
                 delivered, nDatagrams, sessionId, token, timeoutFired>>

(***************************************************************************)
(* Server.query(host, port).                                               *)
(***************************************************************************)
\* the promise executor: createSocket, send the handshake, arm the timer
CallQuery(h, p, sid) ==
  /\ CanCall
  /\ NewCall
  /\ kind' = "query"
  /\ host' = h
  /\ port' = p
  /\ returnStatus' = FALSE
  /\ socket' = "open"
  /\ timer' = "armed"
  /\ response' = <<>>
  /\ sessionId' = sid
  /\ written' = <<QueryHandshake(sid)>>

\* a handler that accepts a 0x00 datagram whether or not a token is known
QueryMessage_StatWithoutToken(msg) ==
  /\ kind = "query"
  /\ socket = "open"
  /\ nDatagrams < MaxDatagrams
  /\ nDatagrams' = nDatagrams + 1
  /\ IF ByteAt(msg, 0) = 9 /\ token = Null
       THEN LET tok == ParseInt(Utf8ToString(Slice(msg, 5, Len(msg) - 1)))
            IN  /\ token' = tok
                /\ written' = Append(written, QueryStatRequest(sessionId, tok))
                /\ UNCHANGED <<socket, timer, promise, settles, result>>
       ELSE IF ByteAt(msg, 0) = 0
         THEN /\ socket' = "closed"
              /\ timer' = "cleared"
              /\ settles' = settles + 1
              /\ promise' = SettledPromise("resolved")
              /\ result' = SettledResult(
                   [type |-> "query", data |-> parseQueryResponse(msg)])
              /\ UNCHANGED <<token, written>>
         ELSE UNCHANGED <<token, written, socket, timer, promise, settles,
                          result>>
  /\ lastMsg' = msg
  /\ UNCHANGED connectedAt
  /\ UNCHANGED <<parked, pureVars, restVars>>
  /\ last' = "message"
  /\ UNCHANGED <<calls, leakedSockets, leakedTimers, kind, host, port,
                 returnStatus, idle, elapsed, receivedData, response,
                 delivered, sessionId, timeoutFired>>

\* a handler that answers every 0x09 datagram with a stat request
QueryMessage_EveryTokenReply(msg) ==
  /\ kind = "query"
  /\ socket = "open"
  /\ nDatagrams < MaxDatagrams
  /\ nDatagrams' = nDatagrams + 1
  /\ IF ByteAt(msg, 0) = 9
       THEN LET tok == ParseInt(Utf8ToString(Slice(msg, 5, Len(msg) - 1)))
            IN  /\ token' = tok
                /\ written' = Append(written, QueryStatRequest(sessionId, tok))
                /\ UNCHANGED <<socket, timer, promise, settles, result>>
       ELSE IF ByteAt(msg, 0) = 0 /\ token # Null
         THEN /\ socket' = "closed"
              /\ timer' = "cleared"
              /\ settles' = settles + 1
              /\ promise' = SettledPromise("resolved")
              /\ result' = SettledResult(
                   [type |-> "query", data |-> parseQueryResponse(msg)])
              /\ UNCHANGED <<token, written>>
         ELSE UNCHANGED <<token, written, socket, timer, promise, settles,
                          result>>
  /\ lastMsg' = msg
  /\ UNCHANGED connectedAt
  /\ UNCHANGED <<parked, pureVars, restVars>>
  /\ last' = "message"
  /\ UNCHANGED <<calls, leakedSockets, leakedTimers, kind, host, port,
                 returnStatus, idle, elapsed, receivedData, response,
                 delivered, sessionId, timeoutFired>>

\* a handler that arms the timer anew when the token arrives
QueryMessage_RearmsTimer(msg) ==
  /\ kind = "query"
  /\ socket = "open"
  /\ nDatagrams < MaxDatagrams
  /\ nDatagrams' = nDatagrams + 1
  /\ IF ByteAt(msg, 0) = 9 /\ token = Null
       THEN LET tok == ParseInt(Utf8ToString(Slice(msg, 5, Len(msg) - 1)))
            IN  /\ token' = tok
                /\ written' = Append(written, QueryStatRequest(sessionId, tok))
                /\ UNCHANGED <<socket, timer, promise, settles, result>>
                /\ idle' = 0
       ELSE IF ByteAt(msg, 0) = 0 /\ token # Null
         THEN /\ socket' = "closed"
              /\ timer' = "cleared"
              /\ settles' = settles + 1
              /\ promise' = SettledPromise("resolved")
              /\ result' = SettledResult(
                   [type |-> "query", data |-> parseQueryResponse(msg)])
              /\ UNCHANGED <<token, written, idle>>
         ELSE UNCHANGED <<token, written, socket, timer, promise, settles,
                          result, idle>>
  /\ lastMsg' = msg
  /\ UNCHANGED connectedAt
  /\ UNCHANGED <<parked, pureVars, restVars>>
  /\ last' = "message"
  /\ UNCHANGED <<calls, leakedSockets, leakedTimers, kind, host, port,
                 returnStatus, elapsed, receivedData, response,
                 delivered, sessionId, timeoutFired>>

\* a 'message' handler that resolves and leaves the timer armed
QueryMessage_KeepsTimer(msg) ==
  /\ kind = "query"
  /\ socket = "open"
  /\ nDatagrams < MaxDatagrams
  /\ nDatagrams' = nDatagrams + 1
  /\ IF ByteAt(msg, 0) = 9 /\ token = Null
       THEN LET tok == ParseInt(Utf8ToString(Slice(msg, 5, Len(msg) - 1)))
            IN  /\ token' = tok
                /\ written' = Append(written, QueryStatRequest(sessionId, tok))
                /\ UNCHANGED <<socket, timer, promise, settles, result>>
       ELSE IF ByteAt(msg, 0) = 0 /\ token # Null
         THEN /\ socket' = "closed"
              /\ timer' = timer
              /\ settles' = settles + 1
              /\ promise' = SettledPromise("resolved")
              /\ result' = SettledResult(
                   [type |-> "query", data |-> parseQueryResponse(msg)])
              /\ UNCHANGED <<token, written>>
         ELSE UNCHANGED <<token, written, socket, timer, promise, settles,
                          result>>
  /\ lastMsg' = msg
  /\ UNCHANGED connectedAt
  /\ UNCHANGED <<parked, pureVars, restVars>>
  /\ last' = "message"
  /\ UNCHANGED <<calls, leakedSockets, leakedTimers, kind, host, port,
                 returnStatus, idle, elapsed, receivedData, response,
                 delivered, sessionId, timeoutFired>>

\* the 'message' handler
QueryMessage(msg) ==
  /\ kind = "query"
  /\ socket = "open"
  /\ nDatagrams < MaxDatagrams
  /\ nDatagrams' = nDatagrams + 1
  /\ IF ByteAt(msg, 0) = 9 /\ token = Null
       THEN LET tok == ParseInt(Utf8ToString(Slice(msg, 5, Len(msg) - 1)))
            IN  /\ token' = tok
                /\ written' = Append(written, QueryStatRequest(sessionId, tok))
                /\ UNCHANGED <<socket, timer, promise, settles, result>>
       ELSE IF ByteAt(msg, 0) = 0 /\ token # Null
         THEN /\ socket' = "closed"
              /\ timer' = "cleared"
              /\ settles' = settles + 1
              /\ promise' = SettledPromise("resolved")
              /\ result' = SettledResult(
                   [type |-> "query", data |-> parseQueryResponse(msg)])
              /\ UNCHANGED <<token, written>>
         ELSE UNCHANGED <<token, written, socket, timer, promise, settles,
                          result>>
  /\ lastMsg' = msg
  /\ UNCHANGED connectedAt
  /\ UNCHANGED <<parked, pureVars, restVars>>
  /\ last' = "message"
  /\ UNCHANGED <<calls, leakedSockets, leakedTimers, kind, host, port,
                 returnStatus, idle, elapsed, receivedData, response,
                 delivered, sessionId, timeoutFired>>

\* a timer callback that rejects and leaves the socket open
QueryTimeout_NoClose ==
  /\ kind = "query"
  /\ timer = "armed"
  /\ idle >= TimeoutMs
  /\ timer' = "fired"
  /\ settles' = settles + 1
  /\ promise' = SettledPromise("rejected")
  /\ result' = SettledResult(TimeoutQuerying)
  /\ timeoutFired' = TRUE
  /\ last' = "timeout"
  /\ UNCHANGED <<lastMsg, connectedAt>>
  /\ UNCHANGED <<parked, pureVars, restVars>>
  /\ UNCHANGED <<calls, leakedSockets, leakedTimers, kind, host, port,
                 returnStatus, socket, idle, elapsed, written, receivedData,
                 response, delivered, nDatagrams, sessionId, token>>

\* the setTimeout callback, 5000 ms after the call
QueryTimeout ==
  /\ kind = "query"
  /\ timer = "armed"
  /\ idle >= TimeoutMs
  /\ socket' = "closed"
  /\ timer' = "fired"
  /\ settles' = settles + 1
  /\ promise' = SettledPromise("rejected")
  /\ result' = SettledResult(TimeoutQuerying)
  /\ timeoutFired' = TRUE
  /\ last' = "timeout"
  /\ UNCHANGED <<lastMsg, connectedAt>>
  /\ UNCHANGED <<parked, pureVars, restVars>>
  /\ UNCHANGED <<calls, leakedSockets, leakedTimers, kind, host, port,
                 returnStatus, idle, elapsed, written, receivedData, response,
                 delivered, nDatagrams, sessionId, token>>

\* an error handler that closes the socket and leaves the timer armed
QueryError_NoClearTimeout ==
  /\ kind = "query"
  /\ socket = "open"
  /\ socket' = "closed"
  /\ settles' = settles + 1
  /\ promise' = SettledPromise("rejected")
  /\ result' = SettledResult(SocketErr)
  /\ last' = "error"
  /\ UNCHANGED <<lastMsg, connectedAt>>
  /\ UNCHANGED <<parked, pureVars, restVars>>
  /\ UNCHANGED <<calls, leakedSockets, leakedTimers, kind, host, port,
                 returnStatus, timer, idle, elapsed, written, receivedData, response,
                 delivered, nDatagrams, sessionId, token, timeoutFired>>

\* the 'error' handler
QueryError ==
  /\ kind = "query"
  /\ socket = "open"
  /\ socket' = "closed"
  /\ timer' = "cleared"
  /\ settles' = settles + 1
  /\ promise' = SettledPromise("rejected")
  /\ result' = SettledResult(SocketErr)
  /\ last' = "error"
  /\ UNCHANGED <<lastMsg, connectedAt>>
  /\ UNCHANGED <<parked, pureVars, restVars>>
  /\ UNCHANGED <<calls, leakedSockets, leakedTimers, kind, host, port,
                 returnStatus, idle, elapsed, written, receivedData, response,
                 delivered, nDatagrams, sessionId, token, timeoutFired>>

(***************************************************************************)
(* The clock: TickMs pass while a timer is armed and not yet due; a due    *)
(* timer runs its callback before more time passes.                        *)
(***************************************************************************)
Tick ==
  /\ timer = "armed"
  /\ idle < TimeoutMs
  /\ idle' = idle + TickMs
  /\ elapsed' = Min(elapsed + TickMs, MaxElapsed)
  /\ UNCHANGED <<lastMsg, connectedAt>>
  /\ UNCHANGED <<parked, pureVars, restVars>>
  /\ UNCHANGED <<calls, leakedSockets, leakedTimers, kind, host, port,
                 returnStatus, socket, timer, written, receivedData, response,
                 delivered, nDatagrams, sessionId, token, promise, settles,
                 result, timeoutFired, last, lastMsg, connectedAt>>

Call ==
  \/ \E h \in Hosts, p \in Ports, rs \in BOOLEAN : CallPing(h, p, rs)
  \/ \E h \in Hosts, p \in Ports : CallLegacyPing(h, p)
  \/ \E h \in Hosts, p \in Ports, sid \in SessionIds : CallQuery(h, p, sid)

Data ==
  \/ \E k \in 1..Len(response) : PingData(k)
  \/ \E k \in 1..Len(response) : LegacyData(k)

Message == \E msg \in Datagrams(sessionId) : QueryMessage(msg)

Next ==
  \/ Call
  \/ PingConnect
  \/ LegacyConnect
  \/ Data
  \/ Message
  \/ PingTimeout
  \/ LegacyTimeout
  \/ QueryTimeout
  \/ PingError
  \/ LegacyError
  \/ QueryError
  \/ Tick

Spec == Init /\ [][Next]_vars

(***************************************************************************)
(* A server that never sends anything and a network without socket errors: *)
(* the calls, the connect callbacks, the clock and the timeout handlers.   *)
(* The event loop lets time pass and runs a due timer callback.            *)
(***************************************************************************)
SilentCall == Call /\ response' = <<>>

SilentNext ==
  \/ SilentCall
  \/ PingConnect
  \/ LegacyConnect
  \/ PingTimeout
  \/ LegacyTimeout
  \/ QueryTimeout
  \/ Tick

SilentSpec ==
  /\ Init
  /\ [][SilentNext]_vars
  /\ WF_vars(Tick)
  /\ WF_vars(PingTimeout)
  /\ WF_vars(LegacyTimeout)
  /\ WF_vars(QueryTimeout)

(***************************************************************************)
(* Notions the properties are stated with.                                 *)
(***************************************************************************)
(* Two callers at once: each makes one call without awaiting the other.    *)
(* The variables hold the session whose handler runs next and parked holds *)
(* the other one; the event loop turns from one to the other between any   *)
(* two handlers.  Everything a handler reads or writes is declared inside  *)
(* the promise executor of its call, so a handler leaves parked alone.     *)
(* Time passes for both sessions.                                          *)
(***************************************************************************)
Switch ==
  /\ parked # SessionRecord
  /\ calls' = parked.calls
  /\ leakedSockets' = parked.leakedSockets
  /\ leakedTimers' = parked.leakedTimers
  /\ kind' = parked.kind
  /\ host' = parked.host
  /\ port' = parked.port
  /\ returnStatus' = parked.returnStatus
  /\ socket' = parked.socket
  /\ timer' = parked.timer
  /\ idle' = parked.idle
  /\ elapsed' = parked.elapsed
  /\ written' = parked.written
  /\ receivedData' = parked.receivedData
  /\ response' = parked.response
  /\ delivered' = parked.delivered
  /\ nDatagrams' = parked.nDatagrams
  /\ sessionId' = parked.sessionId
  /\ token' = parked.token
  /\ promise' = parked.promise
  /\ settles' = parked.settles
  /\ result' = parked.result
  /\ timeoutFired' = parked.timeoutFired
  /\ last' = parked.last
  /\ lastMsg' = parked.lastMsg
  /\ connectedAt' = parked.connectedAt
  /\ parked' = SessionRecord
  /\ UNCHANGED <<pureVars, restVars>>

\* a session with an armed timer that is due
TimerDue(s) == s.timer = "armed" /\ s.idle >= TimeoutMs

\* TickMs pass for a session: only an armed timer makes time count
AdvanceClock(s) ==
  IF s.timer = "armed"
    THEN [s EXCEPT !.idle = @ + TickMs,
                   !.elapsed = Min(@ + TickMs, MaxElapsed)]
    ELSE s

ConcurrentTick ==
  /\ timer = "armed" \/ parked.timer = "armed"
  /\ ~TimerDue(SessionRecord)
  /\ ~TimerDue(parked)
  /\ idle' = AdvanceClock(SessionRecord).idle
  /\ elapsed' = AdvanceClock(SessionRecord).elapsed
  /\ parked' = AdvanceClock(parked)
  /\ UNCHANGED <<pureVars, restVars>>
  /\ UNCHANGED <<calls, leakedSockets, leakedTimers, kind, host, port,
                 returnStatus, socket, timer, written, receivedData, response,
                 delivered, nDatagrams, sessionId, token, promise, settles,
                 result, timeoutFired, last, lastMsg, connectedAt>>

\* the servers of the two callers: a packet with ID 0x01, a short legacy
\* response, a token reply and a stat reply
ConcurrentPingResponses == {OtherPacket}

ConcurrentLegacyResponse == <<255, 0>>

ConcurrentDatagrams(sid) ==
  {TokenReply(sid, <<55>>), StatReply(sid, << <<(<<97>>), (<<98>>)>> >>)}

ConcurrentCall ==
  /\ calls = 0
  /\ \/ /\ \E rs \in BOOLEAN : CallPing(<<97>>, 25565, rs)
        /\ response' \in ConcurrentPingResponses
     \/ /\ CallLegacyPing(<<109, 99>>, 25565)
        /\ response' = ConcurrentLegacyResponse
     \/ CallQuery(<<97>>, 25565, <<258, 772>>)

ConcurrentMessage ==
  \E msg \in ConcurrentDatagrams(sessionId) : QueryMessage(msg)

ConcurrentNext ==
  \/ ConcurrentCall
  \/ Switch
  \/ PingConnect
  \/ LegacyConnect
  \/ Data
  \/ ConcurrentMessage
  \/ PingTimeout
  \/ LegacyTimeout
  \/ QueryTimeout
  \/ PingError
  \/ LegacyError
  \/ QueryError
  \/ ConcurrentTick

ConcurrentSpec == Init /\ [][ConcurrentNext]_vars

(***************************************************************************)
(* The VarInt codec on its own: an input is either the encoding of an      *)
(* integer, decoded at offset 0, or raw bytes decoded at any offset up to  *)
(* one past the end.  Decoding is what the 'data' handler does with a      *)
(* VarInt: readVarInt for the value, getVarIntSize for the bytes consumed. *)
(***************************************************************************)
\* the first and last integer of every encoding length
BoundaryValues ==
  {127, 128, 16383, 16384, 2097151, 2097152, 268435455, 268435456,
   2147483647}

VarIntValues == (0..MaxSmallValue) \cup BoundaryValues

RawBytes == {0, 1, 128, 255}

RawBuffers == UNION {[1..n -> RawBytes] : n \in 0..MaxRawLen}

CodecInit ==
  /\ SessionInit
  /\ ParseIdle
  /\ RestIdle
  /\ cOut = NoOutput
  /\ \/ /\ cValue \in VarIntValues
        /\ cBuf = EncodeVarInt(cValue)
        /\ cOffset = 0
     \/ /\ cValue = -1
        /\ cBuf \in RawBuffers
        /\ cOffset \in 0..(Len(cBuf) + 1)

\* neither function has a throw statement, and an index past the end of a
\* Buffer reads undefined: the decode always returns
DecodeVarInt ==
  /\ ~cOut.done
  /\ cOut' = [done  |-> TRUE,
              threw |-> FALSE,
              value |-> readVarInt(cBuf, cOffset),
              size  |-> getVarIntSize(cBuf, cOffset),
              reads |-> readVarIntPos(cBuf, cOffset) - cOffset]
  /\ UNCHANGED <<cValue, cBuf, cOffset>>
  /\ UNCHANGED <<sessionVars, parked, parseVars, restVars>>

CodecNext == DecodeVarInt

CodecSpec == CodecInit /\ [][CodecNext]_vars

(***************************************************************************)
(* parseQueryResponse on its own: the inputs are a 5-byte header followed  *)
(* by every payload over NUL, a and b up to MaxBodyLen bytes, a stat block *)
(* with the key __proto__, and datagrams shorter than the header.          *)
(***************************************************************************)
QueryHeader == <<0, 1, 2, 3, 4>>

BodyBytes == {0, 97, 98}

Bodies == UNION {[1..n -> BodyBytes] : n \in 0..MaxBodyLen}

\* the stat block __proto__ |-> x
ProtoStat == QueryHeader \o ProtoKey \o <<0, 120, 0, 0>>

QueryMessages ==
  {QueryHeader \o b : b \in Bodies} \cup {ProtoStat, <<>>, <<0, 1, 2>>}

ParseInit ==
  /\ SessionInit
  /\ CodecIdle
  /\ RestIdle
  /\ pMsg \in QueryMessages
  /\ pOut = NoParse

ParseQuery ==
  /\ ~pOut.done
  /\ pOut' = [done |-> TRUE, data |-> parseQueryResponse(pMsg)]
  /\ UNCHANGED pMsg
  /\ UNCHANGED <<sessionVars, parked, codecVars, restVars>>

ParseNext == ParseQuery

ParseSpec == ParseInit /\ [][ParseNext]_vars

(***************************************************************************)
(* Rest (rest.ts): the constructor starts initialize(), which awaits the   *)
(* manifest fetch and then stores it in VERSION_MANIFEST_DATA.  A call of  *)
(* fetchVersions or fetchLatestVersion that finds the field unset awaits a *)
(* manifest fetch of its own, whose result it does not store, and then     *)
(* reads the field.  Every fetch succeeds; the two fetches complete in     *)
(* either order.                                                           *)
(***************************************************************************)
VersionTypes == {"release", "snapshot"}

Version(id, type, time) == [id |-> id, type |-> type, releaseTime |-> time]

Manifest(versions) == [versions |-> versions, loaded |-> TRUE]

ManifestMixed ==
  Manifest(<<Version(1, "release", 1), Version(2, "snapshot", 3),
             Version(3, "release", 2)>>)

ManifestReleases ==
  Manifest(<<Version(1, "release", 2), Version(2, "release", 1)>>)

ManifestSnapshot == Manifest(<<Version(1, "snapshot", 1)>>)

Manifests == {ManifestMixed, ManifestReleases, ManifestSnapshot}

\* versions.filter((v) => v.type === type)
RECURSIVE FilterType(_, _)
FilterType(versions, type) ==
  IF versions = <<>> THEN <<>>
  ELSE (IF Head(versions).type = type THEN <<Head(versions)>> ELSE <<>>)
         \o FilterType(Tail(versions), type)

\* versions.reduce((latest, current) => latest.releaseTime >
\* current.releaseTime ? latest : current), versions not empty
RECURSIVE ReduceLatest(_, _)
ReduceLatest(latest, rest) ==
  IF rest = <<>> THEN latest
  ELSE ReduceLatest(IF latest.releaseTime > Head(rest).releaseTime
                      THEN latest ELSE Head(rest),
                    Tail(rest))

NoVersionsFound == [type |-> "error", message |-> "No versions found"]

\* the part of fetchVersions / fetchLatestVersion after the manifest check:
\* it reads the field, whatever its own fetch returned
RestAnswer(op, type, data) ==
  LET versions == IF data.loaded THEN FilterType(data.versions, type)
                                 ELSE <<>>
  IN  IF Len(versions) = 0 THEN NoVersionsFound
      ELSE IF op = "fetchVersions"
        THEN [type |-> "versions", value |-> versions]
        ELSE [type |-> "version",
              value |-> ReduceLatest(Head(versions), Tail(versions))]

\* new Rest(): initialize() has run up to its await
RestInit ==
  /\ SessionInit
  /\ CodecIdle
  /\ ParseIdle
  /\ pistonManifest \in Manifests
  /\ VERSION_MANIFEST_DATA = NoManifest
  /\ initialize = "pending"
  /\ restCalls = 0
  /\ restOp = "none"
  /\ restType = "none"
  /\ restPc = "idle"
  /\ restResult = NoResult

\* the fetch of initialize() completes and the field is assigned
InitializeDone ==
  /\ initialize = "pending"
  /\ VERSION_MANIFEST_DATA' = pistonManifest
  /\ initialize' = "done"
  /\ UNCHANGED <<pistonManifest, restCalls, restOp, restType, restPc,
                 restResult>>
  /\ UNCHANGED <<sessionVars, parked, pureVars>>

\* a call, made when the previous one has settled: with the field set it
\* runs to its end, otherwise it starts a manifest fetch and awaits it
RestCall(op, type) ==
  /\ restPc # "fetching"
  /\ restCalls < MaxRestCalls
  /\ restCalls' = restCalls + 1
  /\ restOp' = op
  /\ restType' = type
  /\ IF VERSION_MANIFEST_DATA.loaded
       THEN /\ restPc' = "settled"
            /\ restResult' = RestAnswer(op, type, VERSION_MANIFEST_DATA)
       ELSE /\ restPc' = "fetching"
            /\ restResult' = NoResult
  /\ UNCHANGED <<pistonManifest, VERSION_MANIFEST_DATA, initialize>>
  /\ UNCHANGED <<sessionVars, parked, pureVars>>

fetchVersions(type) == RestCall("fetchVersions", type)

fetchLatestVersion(type) == RestCall("fetchLatestVersion", type)

\* the fetch the call awaits completes: its result is dropped and the
\* call goes on to read the field
CallFetchDone ==
  /\ restPc = "fetching"
  /\ restPc' = "settled"
  /\ restResult' = RestAnswer(restOp, restType, VERSION_MANIFEST_DATA)
  /\ UNCHANGED <<pistonManifest, VERSION_MANIFEST_DATA, initialize, restCalls,
                 restOp, restType>>
  /\ UNCHANGED <<sessionVars, parked, pureVars>>

RestNext ==
  \/ InitializeDone
  \/ \E type \in VersionTypes : fetchVersions(type)
  \/ \E type \in VersionTypes : fetchLatestVersion(type)
  \/ CallFetchDone

RestSpec == RestInit /\ [][RestNext]_vars

(***************************************************************************)
StatusMode == kind = "ping" /\ returnStatus
LatencyMode == kind = "ping" /\ ~returnStatus

\* a VarInt ends inside buf when read from the 0-based offset off
HasVarInt(buf, off) ==
  \E i \in off..(Len(buf) - 1) :
    /\ buf[i + 1] < 128
    /\ \A j \in off..(i - 1) : buf[j + 1] >= 128

\* buf holds the outer length, the packet ID, the JSON length and the JSON
CompletePacket(buf) ==
  LET o1 == getVarIntSize(buf, 0)
      o2 == o1 + getVarIntSize(buf, o1)
      o3 == o2 + getVarIntSize(buf, o2)
  IN  /\ HasVarInt(buf, 0)
      /\ HasVarInt(buf, o1)
      /\ HasVarInt(buf, o2)
      /\ Len(buf) >= o3 + readVarInt(buf, o2)

\* what the session surfaces when the whole response comes as one chunk
OneChunkJson(resp) ==
  LET parsed == JsonParse(PingDecode(resp).json)
  IN  [type |-> "json", depth |-> parsed.depth, num |-> parsed.num]

IsTimeout(r) ==
  /\ r.type = "error"
  /\ r.message \in {"Timeout connecting to server", "Timeout querying server"}

\* the handshake packet with both lengths spelled as single bytes
ExpectedHandshake ==
  <<Len(host) + 6, 0, 0, Len(host)>> \o host
    \o <<port \div 256, port % 256, 1>>

LiveSockets == leakedSockets + (IF SocketAlive THEN 1 ELSE 0)
LiveTimers == leakedTimers + (IF TimerAlive THEN 1 ELSE 0)

(***************************************************************************)
(* Properties.                                                             *)
(***************************************************************************)
\* C1: for a framed status response, however its bytes are split into
\* chunks, once the data handler has ended the session or all bytes have
\* been delivered, getStatus has resolved with the JSON that delivery in one
\* chunk gives.
C1_ChunkBoundariesDoNotMatter ==
  (/\ StatusMode
   /\ response \in StatusFrames
   /\ last = "data"
   /\ (socket = "destroyed" \/ delivered = Len(response)))
    => (promise = "resolved" /\ result = OneChunkJson(response))

\* C2: in latency mode the session resolves only on a receive buffer that
\* holds a complete status packet.
C2_LatencyNeedsCompletePacket ==
  (LatencyMode /\ promise = "resolved") => CompletePacket(receivedData)

\* C3: in status mode, after a chunk that leaves the buffer a proper prefix
\* of the status packet, the socket is open, no outcome is surfaced and the
\* buffer is the concatenation of the chunks received.
C3_PrefixKeepsAwaiting ==
  (/\ StatusMode
   /\ response \in StatusFrames
   /\ last = "data"
   /\ delivered < Len(response))
    => (/\ socket = "open"
        /\ promise = "pending"
        /\ receivedData = SubSeq(response, 1, delivered))

\* C4: in a ping session the only writes are the handshake packet followed
\* by the status request [0x01, 0x00], both made by the connect callback
\* before any chunk is handled.
C4_HandshakeThenStatusRequest ==
  kind = "ping" =>
    /\ written \in {<<>>, <<ExpectedHandshake, <<1, 0>> >>}
    /\ (socket = "connecting" => written = <<>>)
    /\ (delivered > 0 => Len(written) = 2)

C4_Witness ==
  /\ kind = "ping"
  /\ delivered > 0
  /\ written = <<ExpectedHandshake, <<1, 0>> >>

\* C5: a ping session that has no outcome yet has been connected for at
\* most 5000 ms: the deadline runs from connect and chunks do not move it.
C5_DeadlineRunsFromConnect ==
  (kind = "ping" /\ socket = "open" /\ promise = "pending")
    => elapsed - connectedAt <= TimeoutMs

\* C6: a status-mode session whose buffer holds a packet with ID 0x00 and a
\* JSON text that does not parse has rejected, and no session is left with
\* its socket destroyed and its promise pending.
C6_DecodeFailureRejects ==
  StatusMode =>
    /\ (/\ last = "data"
        /\ PingDecode(receivedData).packetId = 0
        /\ ~JsonParse(PingDecode(receivedData).json).ok)
         => promise = "rejected"
    /\ ~(socket = "destroyed" /\ promise = "pending")

\* C7: whenever a session has surfaced an outcome its socket is closed and
\* its timer is not armed, and over consecutive awaited calls at most one
\* socket and one timer are alive.
C7_OutcomeImpliesClosed ==
  /\ (kind # "none" /\ promise # "pending") => (~SocketAlive /\ ~TimerAlive)
  /\ LiveSockets <= 1
  /\ LiveTimers <= 1

C7_Witness ==
  /\ calls = 3
  /\ leakedSockets = 0
  /\ promise = "rejected"
  /\ socket \in {"destroyed", "closed"}

\* C8: with a server that never sends anything, every session that is
\* pending eventually rejects with a timeout, its socket closed.
C8_SilentServerTimesOut ==
  (kind # "none" /\ promise = "pending")
    ~> (promise = "rejected" /\ IsTimeout(result) /\ ~SocketAlive)

C8_Witness ==
  /\ kind = "legacyPing"
  /\ written = <<LegacyProbe>>
  /\ promise = "rejected"
  /\ IsTimeout(result)
  /\ socket = "destroyed"

\* C9: once the timeout of a session has fired its socket is closed and its
\* outcome is the timeout, and no later step of that session writes or
\* sends, reopens the socket or changes the outcome.
C9_TimeoutIsFinal ==
  /\ [](timeoutFired =>
          (~SocketAlive /\ promise = "rejected" /\ IsTimeout(result)))
  /\ [][(timeoutFired /\ calls' = calls) =>
          (/\ written' = written
           /\ socket' = socket
           /\ promise' = promise
           /\ result' = result)]_vars

C9_Witness ==
  /\ kind = "query"
  /\ timeoutFired
  /\ token # Null
  /\ Len(written) = 2
  /\ socket = "closed"

\* C10: when a query session whose token is known handles a 0x00 datagram
\* carrying a stat block, it resolves with the mapping of that block, the
\* socket closed and the timer cancelled.
C10_QueryTwoPhase ==
  \A b \in StatBlocks :
    (/\ kind = "query"
     /\ last = "message"
     /\ token # Null
     /\ lastMsg = StatReply(sessionId, b))
      => (/\ promise = "resolved"
          /\ result.type = "query"
          /\ result.data = StatMap(b)
          /\ socket = "closed"
          /\ timer = "cleared")

C10_Witness ==
  /\ kind = "query"
  /\ promise = "resolved"
  /\ token = Num(42)
  /\ result.type = "query"
  /\ result.data = (<<109>> :> <<49>>) @@ (<<110>> :> <<50>>)

\* C11: a 0x00 datagram whose session-ID echo is not the session ID of the
\* client does not complete the session: the socket stays open and the
\* promise pending.
C11_WrongSessionIdIgnored ==
  (/\ kind = "query"
   /\ last = "message"
   /\ ByteAt(lastMsg, 0) = 0
   /\ Len(lastMsg) >= 5
   /\ Slice(lastMsg, 1, 5) # SessionIdBytes(sessionId))
    => (promise = "pending" /\ socket = "open")

\* the 'message' handler is run out of phase on msg when the token is tok
OutOfPhase(msg, tok) ==
  \/ ByteAt(msg, 0) = 0 /\ tok = Null
  \/ ByteAt(msg, 0) = 9 /\ tok # Null
  \/ ByteAt(msg, 0) \notin {0, 9}

\* C12: a step of the 'message' handler on a datagram that is out of phase
\* sends nothing and leaves the token, the socket, the timer and the outcome
\* as they were.
C12_OutOfPhaseIgnored ==
  [][(/\ kind = "query"
      /\ nDatagrams' = nDatagrams + 1
      /\ OutOfPhase(lastMsg', token))
       => (/\ written' = written
           /\ token' = token
           /\ socket' = socket
           /\ timer' = timer
           /\ idle' = idle
           /\ promise' = promise
           /\ result' = result)]_vars

C12_Witness ==
  /\ kind = "query"
  /\ last = "message"
  /\ token = Num(42)
  /\ lastMsg = TokenReply(sessionId, <<55>>)
  /\ Len(written) = 2
  /\ socket = "open"
  /\ promise = "pending"

\* C13: the timer of a query session is armed once, at the call: while the
\* session is pending the timer is armed and has run since the call, no step
\* of the session arms it again or sets it back, a due timer can always
\* fire, and once it has fired the socket is closed and the outcome is the
\* timeout.
C13_SingleTimer ==
  /\ [](kind = "query" =>
          /\ (promise = "pending" => (timer = "armed" /\ idle = elapsed))
          /\ ((promise = "pending" /\ idle >= TimeoutMs)
                => ENABLED QueryTimeout)
          /\ (timeoutFired =>
                (/\ socket = "closed"
                 /\ promise = "rejected"
                 /\ result = TimeoutQuerying)))
  /\ [][(kind = "query" /\ calls' = calls) =>
          (/\ (timer' = "armed" => timer = "armed")
           /\ idle' >= idle)]_vars

C13_Witness ==
  /\ kind = "query"
  /\ timeoutFired
  /\ token = Num(7)
  /\ lastMsg = TokenReply(sessionId, <<55>>)
  /\ idle = elapsed
  /\ result = TimeoutQuerying

\* C14: after the 'error' handler has run the promise is rejected with the
\* socket's error, the socket is destroyed (ping, legacyPing) or closed
\* (query), the timer is cancelled, and the timeout handler does not run in
\* that session afterwards.
C14_ErrorReleasesEverything ==
  /\ [](last = "error" =>
          /\ promise = "rejected"
          /\ result = SocketErr
          /\ socket = (IF kind = "query" THEN "closed" ELSE "destroyed")
          /\ timer = "cleared"
          /\ ~timeoutFired)
  /\ [][(last = "error" /\ calls' = calls) =>
          (~timeoutFired' /\ promise' = promise /\ result' = result)]_vars

C14_Witness ==
  /\ kind = "query"
  /\ last = "error"
  /\ token # Null
  /\ idle > 0
  /\ promise = "rejected"
  /\ timer = "cleared"

\* the numeric token texts a server sends, each with the decimal text of
\* its value: 42, 7, -3, and 07 whose value is written 7
NumericTokens ==
  {<< <<52, 50>>, <<52, 50>> >>, << <<55>>, <<55>> >>,
   << <<45, 51>>, <<45, 51>> >>, << <<48, 55>>, <<55>> >>}

C16_LegacyFieldsBigEndian ==
  (/\ kind = "legacyPing"
   /\ last = "data"
   /\ response = LegacyBigEndian
   /\ delivered = Len(response))
    => (/\ promise = "resolved"
        /\ result.type = "legacy"
        /\ result.protocol = LegacyFields[2]
        /\ result.version = LegacyFields[3]
        /\ result.motd = LegacyFields[4]
        /\ result.onlinePlayers = LegacyFields[5]
        /\ result.maxPlayers = LegacyFields[6])

\* the number of NUL code units in the text of a first chunk: the 2-byte
\* units after the first 3 bytes
NulCount(chunk) ==
  Cardinality({i \in 1..((Len(chunk) - 3) \div 2) :
                 chunk[2 + 2 * i] = 0 /\ chunk[3 + 2 * i] = 0})

\* the five fields of a legacyPing result, in order
LegacyResultFields(r) ==
  <<r.protocol, r.version, r.motd, r.onlinePlayers, r.maxPlayers>>

\* C17: once a legacyPing session has handled a chunk, whatever its bytes,
\* the socket is destroyed and the promise is resolved, never rejected; the
\* i-th field is undefined exactly when the text of that chunk has fewer
\* than i NULs; nothing that follows in the session changes the result.
C17_LegacyFirstChunkDecides ==
  /\ [](( kind = "legacyPing" /\ delivered > 0) =>
          /\ socket = "destroyed"
          /\ promise = "resolved"
          /\ result.type = "legacy"
          /\ \A i \in 1..5 :
               (LegacyResultFields(result)[i] = UndefinedStr)
                 <=> (NulCount(SubSeq(response, 1, delivered)) < i))
  /\ [][(kind = "legacyPing" /\ delivered > 0 /\ calls' = calls) =>
          (/\ delivered' = delivered
           /\ promise' = promise
           /\ result' = result)]_vars

C17_Witness ==
  /\ kind = "legacyPing"
  /\ response = LegacyFull
  /\ delivered = 9
  /\ promise = "resolved"
  /\ result.type = "legacy"
  /\ result.protocol = <<57>>
  /\ result.version = UndefinedStr
  /\ socket = "destroyed"


(***************************************************************************)
(* C18: for every integer v from 0 to 2^31 - 1, decoding the VarInt        *)
(* encoding of v at offset 0 returns v, and the size reported is the       *)
(* length of the encoding.                                                 *)
(***************************************************************************)
C18_VarIntRoundTrip ==
  (cValue >= 0 /\ cOut.done) =>
    /\ ~cOut.threw
    /\ cOut.value = cValue
    /\ cOut.size = Len(cBuf)

\* the largest integer, five bytes long, has been decoded
C18_Witness ==
  /\ cValue = 2147483647
  /\ cBuf = <<255, 255, 255, 255, 7>>
  /\ cOut.done
  /\ cOut.size = 5

(***************************************************************************)
(* C19: decoding a buffer that ends before the VarInt does (the last byte  *)
(* read has its high bit set, or the offset is past the end) is reported   *)
(* as a failure rather than returning a value.                             *)
(***************************************************************************)
C19_TruncationReported ==
  (cOut.done /\ ~HasVarInt(cBuf, cOffset)) => cOut.threw


\* the handshake payload as the wire format defines it: packet ID 0x00,
\* protocol version 0, the host prefixed by the VarInt of its byte length,
\* the port big-endian, next state 1
WirePayload ==
  <<0, 0>> \o EncodeVarInt(Len(host)) \o host
    \o <<port \div 256, port % 256, 1>>

(***************************************************************************)
(* C20: the handshake frame written by a ping is the VarInt of the payload *)
(* length followed by the payload, the host inside it prefixed by the      *)
(* VarInt of its length; decoding the start of the frame as a VarInt gives *)
(* the number of payload bytes that follow, also for hosts of 122 bytes or *)
(* more.                                                                   *)
(***************************************************************************)
C20_FrameLengthIsVarInt ==
  (kind = "ping" /\ Len(written) >= 1) =>
    LET frame == written[1]
    IN  /\ frame = EncodeVarInt(Len(WirePayload)) \o WirePayload
        /\ readVarInt(frame, 0) = Len(frame) - getVarIntSize(frame, 0)


\* the number of bytes from off up to and including the first byte of buf
\* whose high bit is 0, when there is one
TerminatedLength(buf, off) ==
  CHOOSE n \in 1..(Len(buf) - off) :
    /\ buf[off + n] < 128
    /\ \A j \in 1..(n - 1) : buf[off + j] >= 128

(***************************************************************************)
(* C22: for every buffer and offset, getVarIntSize returns the number of   *)
(* bytes readVarInt reads; where a byte with high bit 0 exists from the    *)
(* offset on, that is the count of bytes up to and including it; both      *)
(* scans end within the buffer or one read past it.                        *)
(***************************************************************************)
C22_SizeAgreesWithRead ==
  cOut.done =>
    /\ cOut.size = cOut.reads
    /\ cOut.size <= Max(Len(cBuf) - cOffset, 0) + 1
    /\ HasVarInt(cBuf, cOffset) =>
         cOut.size = TerminatedLength(cBuf, cOffset)

\* a two-byte VarInt decoded at offset 1 of a raw buffer
C22_Witness ==
  /\ cBuf = <<128, 128, 1>>
  /\ cOffset = 1
  /\ cOut.done
  /\ cOut.size = 2
  /\ cOut.reads = 2


\* the NUL-separated parts of a datagram after its first 5 bytes
StatParts(msg) ==
  SplitNul(Utf8ToString(IF Len(msg) > 5 THEN SubSeq(msg, 6, Len(msg))
                                        ELSE <<>>))

\* the even positions that hold a key: a part follows, and no even
\* position up to this one holds the empty string
PairedKeys(parts) ==
  {i \in 0..(Len(parts) - 2) :
     /\ i % 2 = 0
     /\ \A j \in 0..i : j % 2 = 0 => parts[j + 1] # <<>>}

\* the last position a key is paired at
LastPairing(parts, key) ==
  CHOOSE i \in PairedKeys(parts) :
    /\ parts[i + 1] = key
    /\ \A j \in PairedKeys(parts) : parts[j + 1] = key => j <= i

(***************************************************************************)
(* C23: the result of parseQueryResponse maps exactly the keys at even     *)
(* positions before the first empty even-position part that have a part    *)
(* after them, each to the part that follows its last occurrence.          *)
(***************************************************************************)
C23_PairsUntilEmptyKey ==
  pOut.done =>
    LET parts == StatParts(pMsg)
    IN  /\ DOMAIN pOut.data = {parts[i + 1] : i \in PairedKeys(parts)}
        /\ \A key \in DOMAIN pOut.data :
             pOut.data[key] = parts[LastPairing(parts, key) + 2]


(***************************************************************************)
(* C24: in every session resolve or reject is called at most once, the     *)
(* promise is settled exactly when one of them was called, and no later    *)
(* step of the session changes the outcome the caller observes.            *)
(***************************************************************************)
C24_AtMostOneOutcome ==
  /\ [](kind # "none" => (/\ settles <= 1
                          /\ (promise = "pending") <=> (settles = 0)))
  /\ [][(promise # "pending" /\ calls' = calls) =>
          (promise' = promise /\ result' = result)]_vars

\* a ping session that handled a chunk and was then rejected
C24_Witness ==
  /\ kind = "ping"
  /\ delivered > 0
  /\ promise = "rejected"
  /\ settles = 1


(***************************************************************************)
(* C25: when the first packet of the stream has a packet ID other than     *)
(* 0x00, the ping session never resolves, whatever arrives after that      *)
(* packet, and the data handler leaves the socket open.                    *)
(***************************************************************************)
C25_NonStatusFirstPacketBlocks ==
  (/\ kind = "ping"
   /\ response \in {OtherPacket, OtherThenStatus})
    => (/\ promise # "resolved"
        /\ last = "data" => socket = "open")


\* the manifest served holds a version of the given type
HasVersionOfType(manifest, type) ==
  \E i \in 1..Len(manifest.versions) : manifest.versions[i].type = type

(***************************************************************************)
(* C26: with every fetch succeeding, a call of fetchVersions or            *)
(* fetchLatestVersion for a type the manifest holds resolves with the      *)
(* answer taken from the manifest, also when it was made while the         *)
(* constructor's load was pending, whatever order the fetches complete in. *)
(***************************************************************************)
C26_AnswersFromLoadedManifest ==
  (restPc = "settled" /\ HasVersionOfType(pistonManifest, restType))
    => (/\ restResult # NoVersionsFound
        /\ restResult = RestAnswer(restOp, restType, pistonManifest))


\* what a session has written and buffered is its own traffic: the bytes
\* its own server sent, the packets for its own host, session ID and token
OwnTraffic(s) ==
  /\ s.kind = "ping" =>
       /\ s.receivedData = SubSeq(s.response, 1, s.delivered)
       /\ s.written \in {<<>>, <<HandshakePacket(s.host, s.port),
                                 StatusRequest>>}
  /\ s.kind = "legacyPing" =>
       /\ s.receivedData = <<>>
       /\ s.written \in {<<>>, <<LegacyProbe>>}
  /\ s.kind = "query" =>
       /\ s.receivedData = <<>>
       /\ s.token = Null => s.written = <<QueryHandshake(s.sessionId)>>
       /\ s.token # Null =>
            s.written = <<QueryHandshake(s.sessionId),
                          QueryStatRequest(s.sessionId, s.token)>>

\* the event loop turned to the other session
SwitchStep == parked' = SessionRecord /\ SessionRecord' = parked

\* time passed for both sessions
ClockStep ==
  /\ parked' = AdvanceClock(parked)
  /\ SessionRecord' = AdvanceClock(SessionRecord)

(***************************************************************************)
(* C21: with two sessions interleaved, a step that is neither the event    *)
(* loop turning to the other session nor time passing leaves the other     *)
(* session as it was, and each session has buffered and written only its   *)
(* own traffic.                                                            *)
(***************************************************************************)
C21_SessionsIndependent ==
  /\ [][(parked' # parked) => (SwitchStep \/ ClockStep)]_vars
  /\ [](OwnTraffic(SessionRecord) /\ OwnTraffic(parked))

\* a ping session handles its second chunk while a query session that
\* has its token awaits the stat reply
C21_Witness ==
  /\ kind = "ping"
  /\ last = "data"
  /\ delivered = 2
  /\ socket = "open"
  /\ parked.kind = "query"
  /\ parked.token # Null
  /\ parked.promise = "pending"

====
